---- MODULE Spec2Model ----
(***************************************************************************)
(* A model of snuba/consumers/consumer_builder.py: the ConsumerBuilder     *)
(* constructor, statement by statement, build_base_consumer, and the       *)
(* commit-retry and batching behaviour of the consumer it hands out.       *)
(*                                                                         *)
(* Optional values are tuples: None is << >> and a present value v is      *)
(* <<v>>.  Dictionaries are functions over string keys.  A Python object   *)
(* under construction is the dictionary of the attributes assigned so far. *)
(***************************************************************************)
EXTENDS Integers, Sequences, FiniteSets, TLC

VARIABLES
    args,       \* the arguments ConsumerBuilder.__init__ was called with
    settings,   \* the settings file: default broker configuration
    store,      \* the dynamic runtime configuration, as last read by get_config
    pc,         \* the statement of __init__ to run next, or the builder's stage
    self,       \* the attributes assigned to the builder so far
    raised,     \* the exception that ended the constructor, if any
    clients,    \* the Kafka clients constructed so far, oldest first
    handle,     \* the StreamProcessor build_base_consumer returned, if any
    commit,     \* the commit call in progress on the consumer
    batch       \* the batch the running pipeline has open

vars == <<args, settings, store, pc, self, raised, clients, handle, commit, batch>>

----------------------------------------------------------------------------
(* Bounds of the model. *)

MaxSliceId == 2
NumSlices == 2
MaxBatchSize == 3
MaxTicks == 6
MaxMessages == 5
MaxCommits == 2

----------------------------------------------------------------------------
(* Python values. *)

None == << >>
Some(x) == <<x>>

EmptyDict == [k \in {} |-> None]

\* dict.update / keyword merge: the entries of e win over those of d.
Update(d, e) ==
    [k \in DOMAIN d \cup DOMAIN e |-> IF k \in DOMAIN e THEN e[k] ELSE d[k]]

\* arroyo's Topic(name): a value object holding the name.
Topic(name) == <<name>>

\* bool(x) of an Optional[Topic]: Topic defines neither __bool__ nor __len__,
\* so every Topic object is true and only None is false.
Truthy(t) == t # None

----------------------------------------------------------------------------
(* The collaborators the builder calls. *)

StorageKeys == {"errors", "transactions", "replays", "querylog"}

SlicedStorageSets == {"events", "querylog"}

\* The writable storage of a key: its storage set and its stream loader's
\* default, replacement and commit-log topic specs.
get_writable_storage(storage_key) ==
    CASE storage_key = "errors" ->
            [storage_set |-> "events", default_topic |-> "events",
             replacement_topic |-> Some("event-replacements"),
             commit_log_topic |-> Some("snuba-commit-log")]
      [] storage_key = "transactions" ->
            [storage_set |-> "transactions", default_topic |-> "transactions",
             replacement_topic |-> None,
             commit_log_topic |-> Some("snuba-transactions-commit-log")]
      [] storage_key = "replays" ->
            [storage_set |-> "replays", default_topic |-> "ingest-replay-events",
             replacement_topic |-> Some("replay-replacements"),
             commit_log_topic |-> None]
      [] OTHER ->
            [storage_set |-> "querylog", default_topic |-> "snuba-queries",
             replacement_topic |-> None,
             commit_log_topic |-> None]

\* validate_passed_slice: a slice id is accepted when it is absent, or when
\* the storage set is sliced and the id is one of its slices.
SliceIsValid(storage_set, slice_id) ==
    \/ slice_id = None
    \/ /\ storage_set \in SlicedStorageSets
       /\ slice_id[1] < NumSlices

\* TopicSpec.get_physical_topic_name(slice_id).
get_physical_topic_name(topic_name, slice_id) ==
    IF slice_id = None THEN topic_name
    ELSE topic_name \o "-" \o ToString(slice_id[1])

\* get_default_kafka_configuration: the settings' defaults for the topic,
\* the bootstrap servers (the caller's, else the cluster of the slice), then
\* the override parameters on top.
get_default_kafka_configuration(defaults, topic, slice_id, bootstrap_servers, override_params) ==
    Update(
        Update(defaults,
            "bootstrap.servers" :>
                (IF bootstrap_servers # None THEN bootstrap_servers[1]
                 ELSE get_physical_topic_name("kafka", slice_id) \o ":9092")),
        override_params)

build_kafka_producer_configuration(defaults, topic, slice_id, bootstrap_servers, override_params) ==
    Update(
        get_default_kafka_configuration(defaults, topic, slice_id, bootstrap_servers, override_params),
        "compression.type" :> "lz4")

build_kafka_consumer_configuration(defaults, topic, bootstrap_servers, group_id, slice_id, auto_offset_reset) ==
    Update(
        get_default_kafka_configuration(defaults, topic, slice_id, bootstrap_servers, EmptyDict),
        ("group.id" :> group_id) @@ ("auto.offset.reset" :> auto_offset_reset)
            @@ ("enable.auto.commit" :> "false"))

\* snuba.state.get_config(key, default): the stored value, else the default.
get_config(st, key, default) == IF key \in DOMAIN st THEN st[key] ELSE default

----------------------------------------------------------------------------
(* ConsumerBuilder.__init__, statement by statement. *)

\* Mutation: the slice is validated only after the broker configurations.
InitOrder_ValidateLate == <<"storage", "broker", "validate", "topics", "finish">>

\* The statements of __init__ in the order the constructor runs them.
InitOrder == <<"storage", "validate", "broker", "topics", "finish">>

StmtIndex(label) == CHOOSE i \in 1..Len(InitOrder) : InitOrder[i] = label

NextStmt(label) ==
    IF StmtIndex(label) = Len(InitOrder) THEN "constructed"
    ELSE InitOrder[StmtIndex(label) + 1]

\* Mutation: the message ceiling is left out of the overrides.
ProducerOverrideParams_NoCeiling == "partitioner" :> "consistent"

\* The override parameters passed for the producer configuration.
ProducerOverrideParams ==
    ("partitioner" :> "consistent") @@ ("message.max.bytes" :> 50000000)

\* self.raw_topic
ResolveRawTopic(kafka_params, storage, slice_id) ==
    IF kafka_params.raw_topic # None
    THEN Topic(kafka_params.raw_topic[1])
    ELSE Topic(get_physical_topic_name(storage.default_topic, slice_id))

\* self.replacements_topic
ResolveReplacementsTopic(kafka_params, storage, slice_id) ==
    IF kafka_params.replacements_topic # None
    THEN Topic(kafka_params.replacements_topic[1])
    ELSE IF storage.replacement_topic # None
    THEN Topic(get_physical_topic_name(storage.replacement_topic[1], slice_id))
    ELSE None

\* Mutation: a dataset-declared commit-log topic wins over the override.
ResolveCommitLogTopic_DatasetFirst(kafka_params, storage, slice_id) ==
    IF storage.commit_log_topic # None
    THEN Topic(get_physical_topic_name(storage.commit_log_topic[1], slice_id))
    ELSE IF kafka_params.commit_log_topic # None
    THEN Topic(kafka_params.commit_log_topic[1])
    ELSE None

\* self.commit_log_topic
ResolveCommitLogTopic(kafka_params, storage, slice_id) ==
    IF kafka_params.commit_log_topic # None
    THEN Topic(kafka_params.commit_log_topic[1])
    ELSE IF storage.commit_log_topic # None
    THEN Topic(get_physical_topic_name(storage.commit_log_topic[1], slice_id))
    ELSE None

\* The KafkaError codes the default policy retries on.
TransientCodes == {"REQUEST_TIMED_OUT", "NOT_COORDINATOR", "_WAIT_COORD"}

\* Mutation: one attempt more than the default policy allows.
DefaultTries_OneMore == 3 + 1

DefaultTries == 3
DefaultDelay == 1

BasicRetryPolicy(tries, delay, suppression_test) ==
    [kind |-> "BasicRetryPolicy", tries |-> tries, delay |-> delay,
     suppression_test |-> suppression_test]

\* self.__commit_retry_policy: the caller's policy, else the default one.
CommitRetryPolicy(commit_retry_policy) ==
    IF commit_retry_policy = None
    THEN BasicRetryPolicy(DefaultTries, DefaultDelay, "lambda")
    ELSE commit_retry_policy[1]

\* self.storage ... topic (lines 77-85)
InitStorage ==
    /\ pc = "storage"
    /\ self' = Update(self,
            [storage |-> get_writable_storage(args.storage_key),
             bootstrap_servers |-> args.kafka_params.bootstrap_servers,
             consumer_group |-> args.kafka_params.group_id])
    /\ pc' = NextStmt("storage")
    /\ UNCHANGED <<args, settings, store, raised, clients, handle, commit, batch>>

\* validate_passed_slice(self.storage.get_storage_set_key(), slice_id)
ValidateSlice ==
    /\ pc = "validate"
    /\ IF SliceIsValid(get_writable_storage(args.storage_key).storage_set, args.slice_id)
       THEN /\ pc' = NextStmt("validate")
            /\ UNCHANGED raised
       ELSE /\ pc' = "raised"
            /\ raised' = Some("ConfigurationError")
    /\ UNCHANGED <<args, settings, store, self, clients, handle, commit, batch>>

\* self.broker_config and self.producer_broker_config
BuildBrokerConfigs ==
    /\ pc = "broker"
    /\ LET topic == get_writable_storage(args.storage_key).default_topic
       IN self' = Update(self,
            [broker_config |->
                get_default_kafka_configuration(settings, topic, args.slice_id,
                    args.kafka_params.bootstrap_servers, EmptyDict),
             producer_broker_config |->
                build_kafka_producer_configuration(settings, topic, args.slice_id,
                    args.kafka_params.bootstrap_servers, ProducerOverrideParams)])
    /\ pc' = NextStmt("broker")
    /\ UNCHANGED <<args, settings, store, raised, clients, handle, commit, batch>>

\* self.raw_topic, self.replacements_topic, self.commit_log_topic
ResolveTopics ==
    /\ pc = "topics"
    /\ LET storage == get_writable_storage(args.storage_key)
       IN self' = Update(self,
            [raw_topic |-> ResolveRawTopic(args.kafka_params, storage, args.slice_id),
             replacements_topic |->
                ResolveReplacementsTopic(args.kafka_params, storage, args.slice_id),
             commit_log_topic |->
                ResolveCommitLogTopic(args.kafka_params, storage, args.slice_id)])
    /\ pc' = NextStmt("topics")
    /\ UNCHANGED <<args, settings, store, raised, clients, handle, commit, batch>>

\* self.stats_callback, the producer, the remaining parameters and the
\* commit retry policy; the constructor returns.
Finish ==
    /\ pc = "finish"
    /\ clients' = Append(clients,
            [kind |-> "Producer", configuration |-> self.producer_broker_config])
    /\ self' = Update(self,
            [stats_callback |-> args.stats_callback,
             producer |-> Len(clients) + 1,
             max_batch_size |-> args.max_batch_size,
             max_batch_time_ms |-> args.max_batch_time_ms,
             group_id |-> args.kafka_params.group_id,
             auto_offset_reset |-> args.kafka_params.auto_offset_reset,
             commit_retry_policy |-> CommitRetryPolicy(args.commit_retry_policy)])
    /\ pc' = NextStmt("finish")
    /\ UNCHANGED <<args, settings, store, raised, handle, commit, batch>>

----------------------------------------------------------------------------
(* build_base_consumer. *)

\* stats_collection_frequency_ms: the setting keyed by the group id, else
\* the global setting, else 0.
StatsCollectionFrequencyMs(st, group_id) ==
    get_config(st, "stats_collection_freq_ms_" \o group_id,
        get_config(st, "stats_collection_freq_ms", 0))

\* Mutation: only the truthiness of the interval is tested.
StatsEnabled_Nonzero(frequency_ms) == frequency_ms # 0

\* if stats_collection_frequency_ms and stats_collection_frequency_ms > 0
StatsEnabled(frequency_ms) == frequency_ms # 0 /\ frequency_ms > 0

\* The configuration __build_consumer gives to KafkaConsumer.
ConsumerConfiguration(builder, defaults, slice_id, st) ==
    LET configuration ==
            build_kafka_consumer_configuration(defaults,
                builder.storage.default_topic, builder.bootstrap_servers,
                builder.group_id, slice_id, builder.auto_offset_reset)
        stats_collection_frequency_ms ==
            StatsCollectionFrequencyMs(st, builder.group_id)
    IN IF StatsEnabled(stats_collection_frequency_ms)
       THEN Update(configuration,
                ("statistics.interval.ms" :> stats_collection_frequency_ms)
                    @@ ("stats_cb" :> builder.stats_callback))
       ELSE configuration

\* commit_log_config of __build_streaming_strategy_factory
CommitLogConfig(builder) ==
    IF Truthy(builder.commit_log_topic)
    THEN Some([producer |-> builder.producer,
               topic |-> builder.commit_log_topic,
               group_id |-> builder.group_id])
    ELSE None

\* Mutation: the producer is passed whether or not a topic resolved.
ReplacementsProducer_Always(builder) == Some(builder.producer)

\* replacements_producer given to build_batch_writer
ReplacementsProducer(builder) ==
    IF builder.replacements_topic # None THEN Some(builder.producer) ELSE None

\* Mutation: floor division, max_batch_time_ms // 1000.
MaxBatchTime_FloorDiv(max_batch_time_ms) ==
    [num |-> max_batch_time_ms \div 1000, den |-> 1]

\* max_batch_time = self.max_batch_time_ms / 1000.0, in seconds, as the
\* fraction num / den.
MaxBatchTime(max_batch_time_ms) == [num |-> max_batch_time_ms, den |-> 1000]

\* __build_streaming_strategy_factory(slice_id)
StreamingStrategyFactory(builder, slice_id) ==
    [process_message |->
        [consumer_group |-> builder.consumer_group,
         logical_topic |-> builder.storage.default_topic],
     collector |->
        [replacements_producer |-> ReplacementsProducer(builder),
         replacements_topic |-> builder.replacements_topic,
         slice_id |-> slice_id,
         commit_log_config |-> CommitLogConfig(builder)],
     max_batch_size |-> builder.max_batch_size,
     max_batch_time |-> MaxBatchTime(builder.max_batch_time_ms)]

\* The KafkaConsumer of __build_consumer(strategy_factory, slice_id).
KafkaConsumer(builder, defaults, slice_id, st) ==
    [kind |-> "KafkaConsumer",
     configuration |-> ConsumerConfiguration(builder, defaults, slice_id, st),
     slice_id |-> slice_id,
     commit_retry_policy |-> builder.commit_retry_policy]

\* build_base_consumer(slice_id), reading the dynamic configuration st.
build_base_consumer(slice_id, st) ==
    /\ pc = "constructed"
    /\ store' = st
    /\ clients' = Append(clients,
            [kind |-> "KafkaConsumer",
             configuration |-> ConsumerConfiguration(self, settings, slice_id, st)])
    /\ handle' = Some(
            [consumer |-> KafkaConsumer(self, settings, slice_id, st),
             topic |-> self.raw_topic,
             strategy_factory |-> StreamingStrategyFactory(self, slice_id),
             commit_policy |-> "IMMEDIATE"])
    /\ pc' = "built"
    /\ UNCHANGED <<args, settings, self, raised, commit, batch>>

----------------------------------------------------------------------------
(* The inputs and the specification of the builder. *)

SliceIds == {None} \cup {Some(i) : i \in 0..MaxSliceId}

GroupIds == {"ingest-group", ""}

StatsValues == {-1, 0, 500}

StoreKeys == {"stats_collection_freq_ms", "stats_collection_freq_ms_ingest-group"}

Stores == UNION {[K -> StatsValues] : K \in SUBSET StoreKeys}

SettingsChoices ==
    {EmptyDict, ("partitioner" :> "random") @@ ("message.max.bytes" :> 1000000)}

Overrides(name) == {None, Some(name)}

IdleCommit == [status |-> "idle", outcomes |-> << >>, calls |-> 0, test |-> "none"]

NoBatch == [open |-> FALSE, count |-> 0, age_ms |-> 0, ticks |-> 0, messages |-> 0,
            closed |-> None]

InitWith(argset, settingset) ==
    /\ args \in argset
    /\ settings \in settingset
    /\ store = EmptyDict
    /\ pc = InitOrder[1]
    /\ self = EmptyDict
    /\ raised = None
    /\ clients = << >>
    /\ handle = None
    /\ commit = IdleCommit
    /\ batch = NoBatch

Init ==
    InitWith(
        [storage_key : StorageKeys,
         kafka_params :
            [raw_topic : Overrides("raw-override"),
             replacements_topic : Overrides("replacements-override"),
             bootstrap_servers : Overrides("broker:9092"),
             group_id : GroupIds,
             commit_log_topic : Overrides("commits-override"),
             auto_offset_reset : {"earliest"}],
         max_batch_size : {MaxBatchSize},
         max_batch_time_ms : {1000},
         slice_id : SliceIds,
         stats_callback : Overrides("stats_callback"),
         commit_retry_policy : {None}],
        SettingsChoices)

Construct ==
    \/ InitStorage
    \/ ValidateSlice
    \/ BuildBrokerConfigs
    \/ ResolveTopics
    \/ Finish

Next ==
    \/ Construct
    \/ \E slice_id \in SliceIds, st \in Stores : build_base_consumer(slice_id, st)

Spec == Init /\ [][Next]_vars

----------------------------------------------------------------------------
(* Committing through the consumer's retry policy. *)

KafkaError(code) == [type |-> "KafkaError", code |-> code]

Text == [type |-> "str", code |-> "none"]

KafkaException(arguments) == [cls |-> "KafkaException", args |-> arguments]

\* The causes a commit can fail with: broker exceptions carrying a
\* KafkaError, broker exceptions carrying no error or something that is no
\* KafkaError, and exceptions that are no broker exceptions.
Causes ==
    {KafkaException(<<KafkaError(c)>>) :
        c \in TransientCodes \cup {"UNKNOWN_TOPIC_OR_PART"}}
    \cup {KafkaException(<< >>), KafkaException(<<Text>>),
          [cls |-> "RuntimeError", args |-> <<Text>>]}

\* lambda e: isinstance(e, KafkaException) and e.args[0].code() in (...):
\* "True" or "False" when it returns, else the exception it raises.
DefaultSuppressionTest(e) ==
    IF e.cls # "KafkaException" THEN "False"
    ELSE IF Len(e.args) = 0 THEN "IndexError"
    ELSE IF e.args[1].type # "KafkaError" THEN "AttributeError"
    ELSE IF e.args[1].code \in TransientCodes THEN "True"
    ELSE "False"

\* The suppression test of a policy; a NoRetryPolicy suppresses nothing.
SuppressionTest(policy, e) ==
    IF policy.suppression_test = "lambda" THEN DefaultSuppressionTest(e)
    ELSE "False"

\* The consumer starts a commit: RetryPolicy.call(commit).
CommitStart ==
    /\ pc = "built"
    /\ commit.status \in {"idle", "returned"}
    /\ commit.calls < MaxCommits
    /\ commit' = [status |-> "trying", outcomes |-> << >>,
                  calls |-> commit.calls + 1, test |-> "none"]
    /\ UNCHANGED <<args, settings, store, pc, self, raised, clients, handle, batch>>

\* An attempt succeeds: call returns.
CommitSucceeds ==
    /\ commit.status = "trying"
    /\ commit' = [commit EXCEPT !.status = "returned"]
    /\ UNCHANGED <<args, settings, store, pc, self, raised, clients, handle, batch>>

\* An attempt fails with cause e: the policy tests the cause, and re-raises
\* it, gives up with a RetryException after its last try, or sleeps and
\* tries again.
CommitFails(e) ==
    /\ commit.status = "trying"
    /\ LET policy == handle[1].consumer.commit_retry_policy
           verdict == SuppressionTest(policy, e)
           attempt == Len(commit.outcomes) + 1
       IN commit' = [commit EXCEPT
            !.outcomes = Append(@, e),
            !.test = verdict,
            !.status =
                IF verdict = "True"
                THEN IF attempt >= policy.tries THEN "RetryException" ELSE "trying"
                ELSE IF verdict = "False" THEN "raised"
                ELSE verdict]
    /\ UNCHANGED <<args, settings, store, pc, self, raised, clients, handle, batch>>

DefaultArgs ==
    [storage_key |-> "errors",
     kafka_params |->
        [raw_topic |-> None, replacements_topic |-> None,
         bootstrap_servers |-> None, group_id |-> "ingest-group",
         commit_log_topic |-> None, auto_offset_reset |-> "earliest"],
     max_batch_size |-> MaxBatchSize,
     max_batch_time_ms |-> 1000,
     slice_id |-> None,
     stats_callback |-> None,
     commit_retry_policy |-> None]

NoRetryPolicy ==
    [kind |-> "NoRetryPolicy", tries |-> 1, delay |-> 0, suppression_test |-> "none"]

InitRetry ==
    InitWith(
        {[DefaultArgs EXCEPT !.commit_retry_policy = p] :
            p \in {None, Some(NoRetryPolicy)}},
        {EmptyDict})

NextRetry ==
    \/ Construct
    \/ build_base_consumer(args.slice_id, EmptyDict)
    \/ CommitStart
    \/ CommitSucceeds
    \/ \E e \in Causes : CommitFails(e)

SpecRetry == InitRetry /\ [][NextRetry]_vars

----------------------------------------------------------------------------
(* Batching in the pipeline the strategy factory describes. *)

TickSteps == {250, 500}

BatchTimesMs == {500, 1000, 1500}

\* The open batch has reached one of the factory's two bounds.
ShouldClose(count, age_ms, factory) ==
    \/ count >= factory.max_batch_size
    \/ age_ms * factory.max_batch_time.den >= factory.max_batch_time.num * 1000

\* The batch after a message or a clock advance: closed and handed to the
\* collector when a bound is reached.
Settle(b, factory) ==
    IF b.open /\ ShouldClose(b.count, b.age_ms, factory)
    THEN [b EXCEPT !.open = FALSE, !.count = 0, !.age_ms = 0,
                   !.closed = Some([count |-> b.count, age_ms |-> b.age_ms])]
    ELSE b

\* A message arrives: it joins the open batch, or opens one.
Submit ==
    /\ pc = "built"
    /\ batch.messages < MaxMessages
    /\ batch' = Settle(
            [batch EXCEPT !.open = TRUE, !.count = @ + 1, !.messages = @ + 1],
            handle[1].strategy_factory)
    /\ UNCHANGED <<args, settings, store, pc, self, raised, clients, handle, commit>>

\* The clock advances and the run loop polls the strategy.
Tick(step) ==
    /\ pc = "built"
    /\ batch.ticks < MaxTicks
    /\ batch' = Settle(
            [batch EXCEPT !.age_ms = IF batch.open THEN @ + step ELSE @,
                          !.ticks = @ + 1],
            handle[1].strategy_factory)
    /\ UNCHANGED <<args, settings, store, pc, self, raised, clients, handle, commit>>

InitBatch ==
    InitWith(
        {[DefaultArgs EXCEPT !.max_batch_size = n, !.max_batch_time_ms = t] :
            n \in 1..MaxBatchSize, t \in BatchTimesMs},
        {EmptyDict})

NextBatch ==
    \/ Construct
    \/ build_base_consumer(args.slice_id, EmptyDict)
    \/ Submit
    \/ \E step \in TickSteps : Tick(step)

SpecBatch == InitBatch /\ [][NextBatch]_vars

----------------------------------------------------------------------------
(* The claims. *)

StorageOfArgs == get_writable_storage(args.storage_key)

SliceOfArgsIsValid == SliceIsValid(StorageOfArgs.storage_set, args.slice_id)

Escaped == pc \in {"constructed", "built"}

\* What a topic field resolves to: the override, else the physical name of
\* the declared topic spec under the constructor's slice, else nothing.
ExpectedTopic(override, declared) ==
    IF override # None THEN Some(override[1])
    ELSE IF declared # None
    THEN Some(get_physical_topic_name(declared[1], args.slice_id))
    ELSE None

\* C1: once the constructor has resolved the topics, each of the raw,
\* replacement and commit-log topics is its override when one was supplied,
\* else the physical name of the dataset's topic spec for the slice, else
\* absent; each field is decided by its own override and its own spec.
C1_TopicsResolved ==
    "raw_topic" \in DOMAIN self =>
        /\ self.raw_topic =
            ExpectedTopic(args.kafka_params.raw_topic, Some(StorageOfArgs.default_topic))
        /\ self.replacements_topic =
            ExpectedTopic(args.kafka_params.replacements_topic,
                StorageOfArgs.replacement_topic)
        /\ self.commit_log_topic =
            ExpectedTopic(args.kafka_params.commit_log_topic,
                StorageOfArgs.commit_log_topic)

C1_Witness ==
    /\ pc = "constructed"
    /\ args.slice_id # None
    /\ args.kafka_params.raw_topic = None
    /\ args.kafka_params.replacements_topic = None
    /\ StorageOfArgs.replacement_topic # None
    /\ args.kafka_params.commit_log_topic # None
    /\ StorageOfArgs.commit_log_topic # None
    /\ self.commit_log_topic = Topic("commits-override")

\* C2: with a slice id that is not valid for the storage set the constructor
\* ends in a ConfigurationError, and no broker configuration, topic or
\* producer exists, no client was constructed, and neither a builder nor a
\* consumer handle is handed out; the constructor raises for no other reason.
C2_InvalidSliceFailsFirst ==
    /\ raised # None =>
        /\ ~SliceOfArgsIsValid
        /\ raised = Some("ConfigurationError")
        /\ pc = "raised"
    /\ ~SliceOfArgsIsValid =>
        /\ DOMAIN self \cap
            {"broker_config", "producer_broker_config", "raw_topic",
             "replacements_topic", "commit_log_topic", "producer"} = {}
        /\ clients = << >>
        /\ handle = None
        /\ ~Escaped

C2_Witness ==
    /\ pc = "raised"
    /\ raised = Some("ConfigurationError")
    /\ args.slice_id # None
    /\ "storage" \in DOMAIN self

\* C3: in an assembled pipeline the collector has a CommitLogConfig (the
\* producer, the commit-log topic, the group id) exactly when a commit-log
\* topic resolved, a replacement producer exactly when a replacement topic
\* resolved, and the replacement producer and topic are both there or both
\* missing.
C3_CollectorBindings ==
    pc = "built" =>
        LET collector == handle[1].strategy_factory.collector
        IN /\ (collector.commit_log_config # None) <=> (self.commit_log_topic # None)
           /\ collector.commit_log_config # None =>
                collector.commit_log_config =
                    Some([producer |-> self.producer,
                          topic |-> self.commit_log_topic,
                          group_id |-> args.kafka_params.group_id])
           /\ (collector.replacements_producer # None)
                <=> (self.replacements_topic # None)
           /\ (collector.replacements_producer # None)
                <=> (collector.replacements_topic # None)
           /\ collector.replacements_topic = self.replacements_topic

C3_Witness ==
    /\ pc = "built"
    /\ self.commit_log_topic # None
    /\ self.replacements_topic = None
    /\ handle[1].strategy_factory.collector.commit_log_config # None
    /\ handle[1].strategy_factory.collector.replacements_producer = None

HasFixedOverrides(configuration) ==
    /\ "partitioner" \in DOMAIN configuration
    /\ configuration["partitioner"] = "consistent"
    /\ "message.max.bytes" \in DOMAIN configuration
    /\ configuration["message.max.bytes"] = 50000000

\* C4: the producer broker configuration, and the configuration every
\* producer was created with, has partitioner "consistent" and
\* message.max.bytes 50000000, whatever the settings and the arguments say.
C4_ProducerConfigFixed ==
    /\ "producer_broker_config" \in DOMAIN self =>
        HasFixedOverrides(self.producer_broker_config)
    /\ \A i \in 1..Len(clients) :
        clients[i].kind = "Producer" => HasFixedOverrides(clients[i].configuration)
    /\ Escaped => \E i \in 1..Len(clients) : clients[i].kind = "Producer"

C4_Witness ==
    /\ pc = "constructed"
    /\ "partitioner" \in DOMAIN settings
    /\ settings["partitioner"] = "random"
    /\ args.kafka_params.bootstrap_servers # None
    /\ args.slice_id # None
    /\ clients[self.producer].configuration["partitioner"] = "consistent"

\* A cause the default policy is meant to retry: a broker exception whose
\* error code is one of the three transient codes.
IsTransientCause(e) ==
    /\ e.cls = "KafkaException"
    /\ Len(e.args) > 0
    /\ e.args[1].type = "KafkaError"
    /\ e.args[1].code \in {"REQUEST_TIMED_OUT", "NOT_COORDINATOR", "_WAIT_COORD"}

\* C5: under the default policy the retry predicate answers for every
\* cause: retryable for the three transient codes, fatal for every other
\* cause, and it never fails itself.
C5_PredicateTotal ==
    (args.commit_retry_policy = None /\ commit.outcomes # << >>) =>
        commit.test =
            IF IsTransientCause(commit.outcomes[Len(commit.outcomes)])
            THEN "True" ELSE "False"

\* C6: the consumer's retry policy is the caller's when one was given, else
\* the default of 3 attempts and backoff 1; under the default a commit is
\* attempted at most 3 times, every attempt that was followed by another
\* failed with a transient code, a third transient failure ends the call in
\* a RetryException, and after a success or any other failure nothing more
\* is attempted.
C6_RetryPolicy ==
    LET expected ==
            IF args.commit_retry_policy # None THEN args.commit_retry_policy[1]
            ELSE [kind |-> "BasicRetryPolicy", tries |-> 3, delay |-> 1,
                  suppression_test |-> "lambda"]
        n == Len(commit.outcomes)
    IN /\ "commit_retry_policy" \in DOMAIN self =>
            self.commit_retry_policy = expected
       /\ pc = "built" => handle[1].consumer.commit_retry_policy = expected
       /\ args.commit_retry_policy = None =>
            /\ n <= 3
            /\ \A i \in 1..(n - 1) : IsTransientCause(commit.outcomes[i])
            /\ commit.status = "trying" =>
                /\ n < 3
                /\ \A i \in 1..n : IsTransientCause(commit.outcomes[i])
            /\ (n = 3 /\ IsTransientCause(commit.outcomes[3])) =>
                commit.status = "RetryException"
            /\ commit.status = "RetryException" =>
                (n = 3 /\ IsTransientCause(commit.outcomes[3]))

C6_Witness ==
    /\ args.commit_retry_policy = None
    /\ commit.status = "RetryException"
    /\ Len(commit.outcomes) = 3

\* C7: with an empty consumer group id nothing is built: no builder, no
\* producer, no consumer handle.
C7_GroupIdRequired ==
    args.kafka_params.group_id = "" =>
        /\ ~Escaped
        /\ clients = << >>
        /\ handle = None

\* The effective statistics interval: the setting keyed by the builder's
\* group id when it exists, else the global setting, else 0.
EffectiveInterval ==
    LET key == "stats_collection_freq_ms_" \o args.kafka_params.group_id
    IN IF key \in DOMAIN store THEN store[key]
       ELSE IF "stats_collection_freq_ms" \in DOMAIN store
       THEN store["stats_collection_freq_ms"]
       ELSE 0

\* C8: the consumer configuration has statistics.interval.ms and stats_cb
\* exactly when the effective interval is positive, and then they are the
\* effective interval and the callback given at construction.
C8_StatsKeys ==
    pc = "built" =>
        LET configuration == handle[1].consumer.configuration
        IN /\ ("statistics.interval.ms" \in DOMAIN configuration)
                <=> (EffectiveInterval > 0)
           /\ ("stats_cb" \in DOMAIN configuration) <=> (EffectiveInterval > 0)
           /\ EffectiveInterval > 0 =>
                /\ configuration["statistics.interval.ms"] = EffectiveInterval
                /\ configuration["stats_cb"] = args.stats_callback

C8_Witness ==
    /\ pc = "built"
    /\ args.kafka_params.group_id = "ingest-group"
    /\ DOMAIN store = StoreKeys
    /\ store["stats_collection_freq_ms_ingest-group"] = 500
    /\ store["stats_collection_freq_ms"] = 0
    /\ "statistics.interval.ms" \in DOMAIN handle[1].consumer.configuration

\* C9: the pipeline is configured with max_batch_size items and
\* max_batch_time_ms / 1000 seconds; an open batch is below both bounds, and
\* a batch handed to the collector had reached one of them and holds no
\* more than max_batch_size items.
C9_BatchBounds ==
    /\ pc = "built" =>
        LET factory == handle[1].strategy_factory
        IN /\ factory.max_batch_size = args.max_batch_size
           /\ factory.max_batch_time.num * 1000
                = args.max_batch_time_ms * factory.max_batch_time.den
    /\ batch.open =>
        /\ batch.count < args.max_batch_size
        /\ batch.age_ms < args.max_batch_time_ms
    /\ batch.closed # None =>
        /\ batch.closed[1].count <= args.max_batch_size
        /\ \/ batch.closed[1].count = args.max_batch_size
           \/ batch.closed[1].age_ms >= args.max_batch_time_ms

C9_Witness ==
    /\ batch.closed # None
    /\ batch.closed[1].count < args.max_batch_size
    /\ batch.closed[1].age_ms >= args.max_batch_time_ms
    /\ args.max_batch_time_ms = 1500
    /\ batch.open

\* C10: the slice id of the consumer configuration and of the batch
\* collector is the slice id the constructor validated and resolved the
\* topics with.
C10_OneSlice ==
    pc = "built" =>
        /\ handle[1].consumer.slice_id = args.slice_id
        /\ handle[1].strategy_factory.collector.slice_id = args.slice_id

====
